---- MODULE Spec2Model ----
(***************************************************************************)
(* A model of scripts/link-checker.py: find_broken_links (discovery of the *)
(* markdown files, extraction of the [text](path) links, filtering,        *)
(* resolution, the existence check, the per-file exception handler) and    *)
(* print_summary (the statistics block, the rankings, the breakdown).      *)
(*                                                                         *)
(* Python strings are TLA+ strings; a pathlib.Path is the record           *)
(* [abs, parts] of PurePosixPath's anchor and parts.  The filesystem is    *)
(* the function `files` from the absolute Path of every regular file to    *)
(* its text; the directories are the proper prefixes of those paths.       *)
(* There are no symbolic links.                                            *)
(***************************************************************************)
EXTENDS Integers, Sequences, FiniteSets, TLC

(***************************************************************************)
(* str operations                                                          *)
(***************************************************************************)

\* s[i-1:i] of Python, 1-based
Ch(s, i) == SubSeq(s, i, i)

\* s[i-1:]
Tail_(s, i) == SubSeq(s, i, Len(s))

\* str.startswith(p)
StartsWith(s, p) == Len(s) >= Len(p) /\ SubSeq(s, 1, Len(p)) = p

\* str.endswith(p)
EndsWith(s, p) == Len(s) >= Len(p) /\ SubSeq(s, Len(s) - Len(p) + 1, Len(s)) = p

\* str.find(c, i-1) + 1 for a one-character c: the first position >= i
\* holding c, 0 when there is none
Find(s, c, i) ==
    LET hits == {j \in i..Len(s) : Ch(s, j) = c}
    IN  IF hits = {} THEN 0 ELSE CHOOSE j \in hits : \A k \in hits : j <= k

\* sub in s
Contains(s, sub) ==
    \E i \in 1..(Len(s) - Len(sub) + 1) : SubSeq(s, i, i + Len(sub) - 1) = sub

\* s.split(c)[0]
SplitFirst(s, c) ==
    LET j == Find(s, c, 1)
    IN  IF j = 0 THEN s ELSE SubSeq(s, 1, j - 1)

\* s.lstrip(c) for a one-character c
LStrip(s, c) ==
    LET keep == {j \in 1..Len(s) : Ch(s, j) # c}
    IN  IF keep = {} THEN ""
        ELSE Tail_(s, CHOOSE j \in keep : \A k \in keep : j <= k)

\* s.split(c): the pieces between the occurrences of c
RECURSIVE Split(_, _)
Split(s, c) ==
    LET j == Find(s, c, 1)
    IN  IF j = 0 THEN <<s>>
        ELSE <<SubSeq(s, 1, j - 1)>> \o Split(Tail_(s, j + 1), c)

\* c.join(parts)
RECURSIVE Join(_, _)
Join(parts, c) ==
    IF parts = <<>> THEN ""
    ELSE IF Len(parts) = 1 THEN parts[1]
    ELSE parts[1] \o c \o Join(Tail(parts), c)

\* The characters of the paths in use, in code-point order (ord).
CodePoints == "#./0123456789:_abcdefghijklmnopqrstuvwxyz"

\* ord(c), up to the code point of the first character
OrdOf ==
    [c \in {Ch(CodePoints, i) : i \in 1..Len(CodePoints)} |->
        CHOOSE i \in 1..Len(CodePoints) : Ch(CodePoints, i) = c]

Ord(c) == OrdOf[c]

\* s[i-1:] < t[i-1:]
RECURSIVE StrLessFrom(_, _, _)
StrLessFrom(s, t, i) ==
    IF i > Len(t) THEN FALSE
    ELSE IF i > Len(s) THEN TRUE
    ELSE IF Ch(s, i) = Ch(t, i) THEN StrLessFrom(s, t, i + 1)
    ELSE Ord(Ch(s, i)) < Ord(Ch(t, i))

\* s < t of Python: lexicographic by code point
StrLess(s, t) == StrLessFrom(s, t, 1)

\* s * n
RECURSIVE Rep(_, _)
Rep(s, n) ==
    IF n = 0 THEN ""
    ELSE IF n % 2 = 1 THEN s \o Rep(s, n - 1)
    ELSE LET half == Rep(s, n \div 2) IN half \o half

(***************************************************************************)
(* pathlib (PurePosixPath / PosixPath)                                     *)
(***************************************************************************)

\* Path(s): the anchor and the parts; empty and "." components are dropped,
\* ".." is kept
PathOf(s) ==
    [abs   |-> StartsWith(s, "/"),
     parts |-> SelectSeq(Split(s, "/"), LAMBDA x : x # "" /\ x # ".")]

\* str(p)
Str(p) ==
    IF p.abs THEN "/" \o Join(p.parts, "/")
    ELSE IF p.parts = <<>> THEN "."
    ELSE Join(p.parts, "/")

\* p.parent: the anchor and "." are their own parents
Parent(p) ==
    IF p.parts = <<>> THEN p
    ELSE [p EXCEPT !.parts = SubSeq(p.parts, 1, Len(p.parts) - 1)]

\* p.name
Name(p) == IF p.parts = <<>> THEN "" ELSE p.parts[Len(p.parts)]

\* p / s
Div(p, s) ==
    IF StartsWith(s, "/") THEN PathOf(s)
    ELSE [p EXCEPT !.parts = p.parts \o PathOf(s).parts]

\* whether q lies under p (p's parts are a prefix of q's)
IsUnder(q, p) ==
    /\ q.abs = p.abs
    /\ Len(q.parts) >= Len(p.parts)
    /\ SubSeq(q.parts, 1, Len(p.parts)) = p.parts

\* q.relative_to(p), for q under p
RelativeTo(q, p) ==
    [abs |-> FALSE, parts |-> SubSeq(q.parts, Len(p.parts) + 1, Len(q.parts))]

\* The working directory of the process.
Cwd == PathOf("/w/docs")

\* p.absolute()
Absolute(p) == IF p.abs THEN p ELSE [abs |-> TRUE, parts |-> Cwd.parts \o p.parts]

\* the ".." components folded into the components before them
RECURSIVE Collapse(_, _)
Collapse(done, rest) ==
    IF rest = <<>> THEN done
    ELSE IF Head(rest) = ".."
         THEN Collapse(IF done = <<>> THEN <<>>
                       ELSE SubSeq(done, 1, Len(done) - 1), Tail(rest))
    ELSE Collapse(Append(done, Head(rest)), Tail(rest))

\* p.resolve() (strict=False) on a filesystem without symbolic links
Resolve(p) == [abs |-> TRUE, parts |-> Collapse(<<>>, Absolute(p).parts)]

(***************************************************************************)
(* re.findall(r'\[([^\]]+)\]\(([^)]+)\)', content)                         *)
(***************************************************************************)

\* The matches from position i on, leftmost first, not overlapping.  A match
\* starts at a "[" at b; [^\]]+ runs to the first "]" at j and is not empty;
\* "(" follows; [^)]+ runs to the first ")" at k and is not empty.  Neither
\* run can end earlier (the character after it would not be the closing
\* one), so a failed attempt at b is retried from b + 1.
RECURSIVE FindAll(_, _)
FindAll(s, i) ==
    LET b == Find(s, "[", i)
        j == Find(s, "]", b + 1)
        k == Find(s, ")", j + 2)
    IN  IF b = 0 THEN <<>>
        ELSE IF j = 0 \/ j = b + 1 \/ j + 1 > Len(s) THEN FindAll(s, b + 1)
        ELSE IF Ch(s, j + 1) # "(" \/ k = 0 \/ k = j + 2 THEN FindAll(s, b + 1)
        ELSE <<[link_text |-> SubSeq(s, b + 1, j - 1),
                link_path |-> SubSeq(s, j + 2, k - 1)]>> \o FindAll(s, k + 1)

(***************************************************************************)
(* The state                                                               *)
(***************************************************************************)
VARIABLES
    doc_root,       \* Path(sys.argv[1]), Path(".") when there is none
    files,          \* the filesystem: absolute Path of a file |-> its text
    undecodable,    \* the files whose bytes are not UTF-8
    strict_stat,    \* whether Path.exists() re-raises an OSError that is not
                    \* ENOENT/ENOTDIR/EBADF/ELOOP (CPython up to 3.12 does,
                    \* from 3.13 on os.path.exists swallows it)
    pc,             \* where the program is
    md_files,       \* the list of Paths built at lines 17-18
    idx,            \* position of the for loop of line 20 in md_files
    links,          \* the matches of the document being processed
    li,             \* position of the for loop of line 28 in links
    broken_links, total_links, total_files,
    stdout,         \* the lines printed so far
    raised,         \* the exception that left print_summary, "" when none
    checks,         \* log of the Path.exists() calls made
    run,            \* 1 in the first run of the program, 2 in the second
    first_report    \* what the first run printed

env == <<doc_root, files, undecodable, strict_stat>>
scan == <<md_files, idx, links, li, broken_links, total_links, total_files, checks>>
vars == <<doc_root, files, undecodable, strict_stat, pc, md_files, idx, links,
          li, broken_links, total_links, total_files, stdout, raised, checks,
          run, first_report>>

(***************************************************************************)
(* The filesystem calls                                                    *)
(***************************************************************************)

\* Linux' NAME_MAX: stat() of a path with a longer component fails with
\* ENAMETOOLONG.
NAME_MAX == 255

Prefixes(p) == {[p EXCEPT !.parts = SubSeq(p.parts, 1, n)] : n \in 0..Len(p.parts)}

FilePaths == DOMAIN files

\* the directories: the working directory, the parents of the files, and
\* the directories above them
DirPaths == UNION {Prefixes(d) : d \in {Parent(f) : f \in FilePaths} \cup {Cwd}}

\* os.stat(p): "found", "missing" (ENOENT, ENOTDIR) or "error" (ENAMETOOLONG);
\* at is the directory reached, rest the components still to look up, F and
\* D the files and the directories
RECURSIVE StatWalk(_, _, _, _)
StatWalk(at, rest, F, D) ==
    IF rest = <<>> THEN "found"
    ELSE IF Head(rest) = ".." THEN StatWalk(Parent(at), Tail(rest), F, D)
    ELSE IF Len(Head(rest)) > NAME_MAX THEN "error"
    ELSE IF Div(at, Head(rest)) \in D
         THEN StatWalk(Div(at, Head(rest)), Tail(rest), F, D)
    ELSE IF Div(at, Head(rest)) \in F /\ Tail(rest) = <<>> THEN "found"
    ELSE "missing"

Stat(p) == StatWalk(PathOf("/"), Absolute(p).parts, FilePaths, DirPaths)

\* p.is_dir()
IsDir(p) == Stat(p) = "found" /\ Resolve(p) \in DirPaths

\* The permutations of a finite set, as sequences.
Perms(S) ==
    {f \in [1..Cardinality(S) -> S] : \A i, j \in 1..Cardinality(S) : f[i] = f[j] => i = j}

\* Path(d).rglob("*.md"), d absolute: every order in which the walk can
\* yield the files.  The matches of a directory come first, in the order
\* os.scandir returns them, then the walk of each subdirectory, these too in
\* scandir's order; scandir's order is the filesystem's, any permutation.
RECURSIVE Walks(_)
RECURSIVE WalksOfEach(_)
Walks(d) ==
    LET own  == {f \in FilePaths : Parent(f) = d /\ EndsWith(Name(f), ".md")}
        subs == {x \in DirPaths : x # d /\ Parent(x) = d}
    IN  UNION {{o \o t : t \in WalksOfEach(sp)} : o \in Perms(own), sp \in Perms(subs)}
WalksOfEach(ds) ==
    IF ds = <<>> THEN {<<>>}
    ELSE {h \o t : h \in Walks(ds[1]), t \in WalksOfEach(Tail(ds))}

\* the orders of Path(root).rglob("*.md"), each path as root / relative path;
\* nothing is yielded for a root that is no directory
Rglob(root) ==
    IF ~IsDir(root) THEN {<<>>}
    ELSE {[i \in 1..Len(w) |-> Div(root, Str(RelativeTo(w[i], Resolve(root))))] :
            w \in Walks(Resolve(root))}

(***************************************************************************)
(* find_broken_links: the pieces of the loop body                          *)
(***************************************************************************)

\* line 18: the condition of the list comprehension
KeepFile(f) == ~Contains(Str(f), "node_modules")

\* lines 17-18: the lists md_files can be
DiscoveredLists(root) == {SelectSeq(w, KeepFile) : w \in Rglob(root)}

\* line 21
CountFile(n) == n + 1

\* line 37 left out
CountLinkForgotten(n) == n

\* line 37
CountLink(n) == n + 1

\* line 30 without the mailto: prefix
SkipExternalButMailto(link_path) ==
    \E p \in {"http://", "https://", "#", "data:"} : StartsWith(link_path, p)

\* line 30: external links, anchors, data URIs, mailto
SkipExternal(link_path) ==
    \E p \in {"http://", "https://", "#", "data:", "mailto:"} : StartsWith(link_path, p)

\* line 34: empty or placeholder links
SkipPlaceholder(link_path) == link_path = "" \/ link_path = "path"

\* line 40
CleanPath(link_path) == SplitFirst(link_path, "#")

\* lines 45-50
TargetPath(root, md_file, clean_path) ==
    IF StartsWith(clean_path, "/")
    THEN Div(Parent(root), LStrip(clean_path, "/"))
    ELSE Resolve(Div(Parent(md_file), clean_path))

\* lines 54-60
BrokenRecord(root, md_file, link) ==
    [file          |-> Str(RelativeTo(md_file, root)),
     link_text     |-> link.link_text,
     link_path     |-> link.link_path,
     resolved_path |-> Str(TargetPath(root, md_file, CleanPath(link.link_path)))]

\* a printed line
Line(kind, n, s, t) == [kind |-> kind, n |-> n, s |-> s, t |-> t]

\* line 66
ErrorLine(md_file, cause) == Line("Error processing", 0, Str(md_file), cause)

(***************************************************************************)
(* print_summary: the pieces of the report                                 *)
(***************************************************************************)

\* the numbers of lines 95, 101, 106 and 108-111
TopFiles == 10
TopLinks == 15
DetailFiles == 5
DetailLinks == 5

\* the distinct elements of a sequence, in the order each is first met: the
\* key order of Counter(seq) and of the defaultdict by_file
RECURSIVE Keys(_)
Keys(seq) ==
    IF seq = <<>> THEN <<>>
    ELSE LET front == Keys(SubSeq(seq, 1, Len(seq) - 1))
             last  == seq[Len(seq)]
         IN  IF \E i \in 1..Len(front) : front[i] = last
             THEN front ELSE Append(front, last)

\* Counter(seq).items(): (key, count) in key order
Counter(seq) ==
    LET keys == Keys(seq)
    IN  [i \in 1..Len(keys) |->
            [key   |-> keys[i],
             count |-> Cardinality({j \in 1..Len(seq) : seq[j] = keys[i]})]]

\* Before, with equal counts ordered the other way round
BeforeLastMet(items, i, j) ==
    \/ items[i].count > items[j].count
    \/ items[i].count = items[j].count /\ i > j

\* Whether item i goes before item j in heapq.nlargest(n, items, key=count):
\* the larger count first, and of two equal counts the one met first
\* (nlargest decorates each item with a decreasing order number).
Before(items, i, j) ==
    \/ items[i].count > items[j].count
    \/ items[i].count = items[j].count /\ i < j

\* Counter.most_common(n) = heapq.nlargest(n, items, key=itemgetter(1))
\* the n first of the items at the positions `left`, first the one that
\* goes before all others
RECURSIVE NLargest(_, _, _)
NLargest(n, items, left) ==
    IF n = 0 \/ left = {} THEN <<>>
    ELSE LET first == CHOOSE i \in left : \A j \in left \ {i} : Before(items, i, j)
         IN  <<items[first]>> \o NLargest(n - 1, items, left \ {first})

MostCommon(items, n) == NLargest(n, items, 1..Len(items))

\* sorted(strs) for distinct strings
RECURSIVE SortedStrs(_)
SortedStrs(S) ==
    IF S = {} THEN <<>>
    ELSE LET least == CHOOSE x \in S : \A y \in S \ {x} : StrLess(x, y)
         IN  <<least>> \o SortedStrs(S \ {least})

\* seq[:n]
Take(seq, n) == SubSeq(seq, 1, IF Len(seq) < n THEN Len(seq) ELSE n)

RECURSIVE Flatten(_)
Flatten(seqs) == IF seqs = <<>> THEN <<>> ELSE Head(seqs) \o Flatten(Tail(seqs))

\* f"{x:.1f}" of x = valid / total * 100, as tenths of a percent: the
\* nearest tenth, a tie going to the even one
Tenths(valid, total) ==
    LET q == (1000 * valid) \div total
        r == (1000 * valid) % total
    IN  IF 2 * r > total \/ (2 * r = total /\ q % 2 = 1) THEN q + 1 ELSE q

\* lines 74-81
StatisticsLines(broken, total, nfiles) ==
    << Line("======", 0, "", ""),
       Line("MARKDOWN LINK VALIDATION REPORT", 0, "", ""),
       Line("======", 0, "", ""),
       Line("Statistics:", 0, "", ""),
       Line("Files scanned:", nfiles, "", ""),
       Line("Total internal links:", total, "", ""),
       Line("Broken links:", Len(broken), "", ""),
       Line("Valid links:", total - Len(broken), "", "") >>

\* line 82, for total # 0
RateLine(broken, total) ==
    Line("Success rate:", Tenths(total - Len(broken), total), "", "")

\* lines 93-96
TopFilesLines(broken) ==
    LET top == MostCommon(Counter([i \in 1..Len(broken) |-> broken[i].file]), TopFiles)
    IN  [r \in 1..Len(top) |-> Line("top file", top[r].count, top[r].key, "")]

\* lines 99-102
TopLinksLines(broken) ==
    LET top == MostCommon(Counter([i \in 1..Len(broken) |-> broken[i].link_path]), TopLinks)
    IN  [r \in 1..Len(top) |-> Line("top link", top[r].count, top[r].key, "")]

\* lines 107-111 for one file of by_file
DetailOf(broken, file) ==
    LET items == SelectSeq(broken, LAMBDA item : item.file = file)
    IN  <<Line("file", 0, file, "")>>
        \o [i \in 1..Len(Take(items, DetailLinks)) |->
              Line("link", 0, items[i].link_text, items[i].link_path)]
        \o (IF Len(items) > DetailLinks
            THEN <<Line("... and more", Len(items) - DetailLinks, "", "")>> ELSE <<>>)

\* lines 85-111
BreakdownLines(broken) ==
    LET by_file == {broken[i].file : i \in 1..Len(broken)}
        first   == Take(SortedStrs(by_file), DetailFiles)
    IN  <<Line("Files with broken links:", Cardinality(by_file), "", ""),
          Line("Top 10 files with most broken links:", 0, "", "")>>
        \o TopFilesLines(broken)
        \o <<Line("Top 15 most common broken link patterns:", 0, "", "")>>
        \o TopLinksLines(broken)
        \o <<Line("Detailed breakdown (first 5 files):", 0, "", "")>>
        \o Flatten([i \in 1..Len(first) |-> DetailOf(broken, first[i])])

\* line 115
FooterLines == <<Line("======", 0, "", "")>>

(***************************************************************************)
(* The inputs: the command line and the tree on disk                       *)
(***************************************************************************)

\* A slot of the tree that holds no file.
Absent == "<absent>"
\* A file whose bytes do not decode as UTF-8.
BadBytes == "<not utf-8>"

\* A file name longer than NAME_MAX.
LongName == Rep("a", NAME_MAX + 1)

\* What a document at the top of the tree may hold: links that are all
\* skipped, links that resolve (when b.md is there and the root is named by
\* its absolute path), broken links, and a link whose check fails.
TopTexts ==
    { "[w](http://e.org) [s](https://e.org/x) [d](data:x) [m](mailto:a) [h](#sec) [p](path) [e]()",
      "[i](b.md#install) [j](b.md) [v](sub/../b.md) [t](a.md#) [g](/g.md)",
      "[n](no.md) [k](ko.md) [n](no.md)",
      "[n](no.md) [z](" \o LongName \o ") [q](b.md)" }

\* What the document in the subdirectory may hold.
SubTexts == { "[u](../b.md) [x](../c.md) [y](c.md)" }

\* What a document in or beside a node_modules directory may hold.
DepTexts == { "[n](no.md)" }

\* The documents a tree may hold, relative to its directory.
Slots ==
    [a |-> "a.md", b |-> "b.md", c |-> "sub/c.md",
     d |-> "node_modules/d.md", e |-> "node_modules_faq.md"]

\* The trees: what each document holds, if it is there.
Trees ==
    [a : TopTexts \cup {BadBytes, Absent},
     b : TopTexts \cup {BadBytes, Absent},
     c : SubTexts \cup {Absent},
     d : DepTexts \cup {Absent},
     e : DepTexts \cup {Absent}]

\* The directories a tree may be in, and a file beside them.
Bases == {PathOf("/w/docs"), PathOf("/w/node_modules/docs")}
Beside == PathOf("/w/g.md")

\* The ways to name the directory to scan: by its absolute path, as "." from
\* inside it (the default of line 119), and a path that does not exist.
RootsOf(base) ==
    IF base = Cwd THEN {base, PathOf("."), PathOf("/w/nope")} ELSE {base}

\* the filesystem holding tree t in directory base
Disk(t, base) ==
    LET held == {k \in DOMAIN Slots : t[k] # Absent}
        at(k) == Div(base, Slots[k])
    IN  [f \in {at(k) : k \in held} \cup {Beside} |->
            IF f = Beside THEN ""
            ELSE LET k == CHOOSE x \in held : at(x) = f
                 IN  IF t[k] = BadBytes THEN "" ELSE t[k]]

BadFiles(t, base) ==
    {Div(base, Slots[k]) : k \in {x \in DOMAIN Slots : t[x] = BadBytes}}

(***************************************************************************)
(* The program                                                             *)
(***************************************************************************)

\* the state of the process before print_summary is called
Start ==
    /\ pc = "start"
    /\ md_files = <<>> /\ idx = 0 /\ links = <<>> /\ li = 0
    /\ broken_links = <<>> /\ total_links = 0 /\ total_files = 0
    /\ stdout = <<>> /\ raised = "" /\ checks = <<>>

Init ==
    /\ \E t \in Trees, base \in Bases :
         /\ files = Disk(t, base)
         /\ undecodable = BadFiles(t, base)
         /\ doc_root \in RootsOf(base)
    /\ strict_stat \in BOOLEAN
    /\ run = 1 /\ first_report = <<>>
    /\ Start

md_file == md_files[idx]
link == links[li]

\* lines 12-18: the locals and the list of markdown files
Discover ==
    /\ pc = "start"
    /\ md_files' \in DiscoveredLists(doc_root)
    /\ idx' = 1
    /\ pc' = "for md_file"
    /\ UNCHANGED <<env, links, li, broken_links, total_links, total_files,
                   stdout, raised, checks, run, first_report>>

\* lines 20-26: the next document is read and its links are extracted
ReadDocument ==
    /\ pc = "for md_file" /\ idx <= Len(md_files)
    /\ Absolute(md_file) \notin undecodable
    /\ total_files' = CountFile(total_files)
    /\ links' = FindAll(files[Absolute(md_file)], 1)
    /\ li' = 1
    /\ pc' = "for link"
    /\ UNCHANGED <<env, md_files, idx, broken_links, total_links, stdout,
                   raised, checks, run, first_report>>

\* lines 20-23 without the handler of lines 65-66: the exception leaves
\* find_broken_links and print_summary
ReadFailsUncaught ==
    /\ pc = "for md_file" /\ idx <= Len(md_files)
    /\ Absolute(md_file) \in undecodable
    /\ total_files' = CountFile(total_files)
    /\ raised' = "UnicodeDecodeError"
    /\ pc' = "exit"
    /\ UNCHANGED <<env, md_files, idx, links, li, broken_links, total_links,
                   stdout, checks, run, first_report>>

\* lines 20-23, 65-66: read_text raises UnicodeDecodeError; the handler
\* prints it and the loop goes on
ReadFails ==
    /\ pc = "for md_file" /\ idx <= Len(md_files)
    /\ Absolute(md_file) \in undecodable
    /\ total_files' = CountFile(total_files)
    /\ stdout' = Append(stdout, ErrorLine(md_file, "UnicodeDecodeError"))
    /\ idx' = idx + 1
    /\ UNCHANGED <<env, pc, md_files, links, li, broken_links, total_links,
                   raised, checks, run, first_report>>

\* lines 28-35: a link that is skipped
SkipLink ==
    /\ pc = "for link" /\ li <= Len(links)
    /\ SkipExternal(link.link_path) \/ SkipPlaceholder(link.link_path)
    /\ li' = li + 1
    /\ UNCHANGED <<env, pc, md_files, idx, links, broken_links, total_links,
                   total_files, stdout, raised, checks, run, first_report>>

\* What target_path.exists() does: "True", "False", or "raise".
Exists(p) ==
    IF Stat(p) = "error" THEN (IF strict_stat THEN "raise" ELSE "False")
    ELSE IF Stat(p) = "found" THEN "True" ELSE "False"

\* lines 37-60: a link that is counted, resolved and checked; verbose is
\* False in the call of line 72, so line 63 prints nothing
CheckLink ==
    /\ pc = "for link" /\ li <= Len(links)
    /\ ~SkipExternal(link.link_path) /\ ~SkipPlaceholder(link.link_path)
    /\ LET clean_path  == CleanPath(link.link_path)
           target_path == TargetPath(doc_root, md_file, clean_path)
           exists      == Exists(target_path)
       IN  /\ clean_path # "" => exists # "raise"
           /\ total_links' = CountLink(total_links)
           /\ IF clean_path = ""
              THEN UNCHANGED <<broken_links, checks>>
              ELSE /\ checks' = Append(checks, [file |-> Str(md_file), at |-> li,
                                                path |-> Str(target_path)])
                   /\ broken_links' =
                        IF exists = "True" THEN broken_links
                        ELSE Append(broken_links, BrokenRecord(doc_root, md_file, link))
    /\ li' = li + 1
    /\ UNCHANGED <<env, pc, md_files, idx, links, total_files, stdout, raised,
                   run, first_report>>

\* lines 37-53, 65-66: the existence check raises OSError; the handler
\* prints it and the loop goes on with the next document
CheckFails ==
    /\ pc = "for link" /\ li <= Len(links)
    /\ ~SkipExternal(link.link_path) /\ ~SkipPlaceholder(link.link_path)
    /\ CleanPath(link.link_path) # ""
    /\ Exists(TargetPath(doc_root, md_file, CleanPath(link.link_path))) = "raise"
    /\ total_links' = CountLink(total_links)
    /\ stdout' = Append(stdout, ErrorLine(md_file, "OSError"))
    /\ idx' = idx + 1
    /\ pc' = "for md_file"
    /\ UNCHANGED <<env, md_files, links, li, broken_links, total_files, raised,
                   checks, run, first_report>>

\* line 28: the links of the document are exhausted
NextDocument ==
    /\ pc = "for link" /\ li > Len(links)
    /\ idx' = idx + 1
    /\ pc' = "for md_file"
    /\ UNCHANGED <<env, md_files, links, li, broken_links, total_links,
                   total_files, stdout, raised, checks, run, first_report>>

\* lines 68, 72: the documents are exhausted and the result is returned
Return ==
    /\ pc = "for md_file" /\ idx > Len(md_files)
    /\ pc' = "statistics"
    /\ UNCHANGED <<env, scan, stdout, raised, run, first_report>>

\* lines 74-82: the banner and the statistics; the success rate divides by
\* total, and ZeroDivisionError leaves print_summary when it is 0
PrintStatistics ==
    /\ pc = "statistics"
    /\ IF total_links = 0
       THEN /\ stdout' = stdout \o StatisticsLines(broken_links, total_links, total_files)
            /\ raised' = "ZeroDivisionError"
            /\ pc' = "exit"
       ELSE /\ stdout' = stdout \o StatisticsLines(broken_links, total_links, total_files)
                                \o <<RateLine(broken_links, total_links)>>
            /\ raised' = raised
            /\ pc' = "breakdown"
    /\ UNCHANGED <<env, scan, run, first_report>>

\* lines 84-111, 115: the rankings and the breakdown
PrintBreakdown ==
    /\ pc = "breakdown" /\ Len(broken_links) > 0
    /\ stdout' = stdout \o BreakdownLines(broken_links) \o FooterLines
    /\ pc' = "exit"
    /\ UNCHANGED <<env, scan, raised, run, first_report>>

\* lines 112-115
PrintAllValid ==
    /\ pc = "breakdown" /\ Len(broken_links) = 0
    /\ stdout' = stdout \o <<Line("All links are valid!", 0, "", "")>> \o FooterLines
    /\ pc' = "exit"
    /\ UNCHANGED <<env, scan, raised, run, first_report>>

Next ==
    \/ Discover \/ ReadDocument \/ ReadFails
    \/ SkipLink \/ CheckLink \/ CheckFails \/ NextDocument
    \/ Return \/ PrintStatistics \/ PrintBreakdown \/ PrintAllValid

Spec == Init /\ [][Next]_vars

(***************************************************************************)
(* The program run twice on the same tree                                  *)
(***************************************************************************)

\* The first run has ended; the program is started again, with the same
\* argument, on the same filesystem.
Rerun ==
    /\ pc = "exit" /\ run = 1
    /\ first_report' = stdout
    /\ run' = 2
    /\ pc' = "start"
    /\ md_files' = <<>> /\ idx' = 0 /\ links' = <<>> /\ li' = 0
    /\ broken_links' = <<>> /\ total_links' = 0 /\ total_files' = 0
    /\ stdout' = <<>> /\ raised' = "" /\ checks' = <<>>
    /\ UNCHANGED env

NextTwice == Next \/ Rerun

SpecTwice == Init /\ [][NextTwice]_vars

(***************************************************************************)
(* print_summary on the results of scans of many documents                 *)
(***************************************************************************)

\* The most documents of a tree.
MaxRankFiles == 11

\* The numbers of broken links a document may hold.
RankCounts == {1, 3}

RankName(i) == "f" \o (IF i < 10 THEN "0" ELSE "") \o ToString(i) \o ".md"

\* The state in which find_broken_links returns after scanning, under
\* /w/docs, documents f01.md, f02.md, ... that hold cnt[i] times the broken
\* link [n](no.md); rglob yielded them by ascending or by descending name.
InitRank ==
    \E n \in 1..MaxRankFiles, up \in BOOLEAN :
      \E cnt \in [1..n -> RankCounts] :
        LET doc(i)  == Div(Cwd, RankName(IF up THEN i ELSE n + 1 - i))
            Docs    == {doc(i) : i \in 1..n}
            text(i) == Rep("[n](no.md) ", cnt[i])
            no      == [link_text |-> "n", link_path |-> "no.md"]
        IN  /\ doc_root = Cwd
            /\ files = [f \in Docs \cup {Beside} |->
                          IF f = Beside THEN ""
                          ELSE text(CHOOSE i \in 1..n : doc(i) = f)]
            /\ undecodable = {}
            /\ strict_stat = TRUE
            /\ md_files = [i \in 1..n |-> doc(i)]
            /\ idx = n + 1
            /\ links = [k \in 1..cnt[n] |-> no]
            /\ li = cnt[n] + 1
            /\ broken_links =
                 Flatten([i \in 1..n |-> [k \in 1..cnt[i] |-> BrokenRecord(Cwd, doc(i), no)]])
            /\ checks =
                 Flatten([i \in 1..n |-> [k \in 1..cnt[i] |->
                    [file |-> Str(doc(i)), at |-> k, path |-> "/w/docs/no.md"]]])
            /\ total_files = n
            /\ pc = "statistics"
            /\ stdout = <<>> /\ raised = "" /\ run = 1 /\ first_report = <<>>
    /\ total_links = Len(broken_links)

NextRank == PrintStatistics \/ PrintBreakdown

SpecRank == InitRank /\ [][NextRank]_vars

(***************************************************************************)
(* The claims                                                              *)
(***************************************************************************)

\* find_broken_links has returned
Returned == pc \in {"statistics", "breakdown", "exit"}

\* the filter as the specification states it
Filtered(target_spec) ==
    \/ StartsWith(target_spec, "http://") \/ StartsWith(target_spec, "https://")
    \/ StartsWith(target_spec, "data:") \/ StartsWith(target_spec, "mailto:")
    \/ StartsWith(target_spec, "#")
    \/ target_spec = "" \/ target_spec = "path"

\* the references extracted from a document (none from one that cannot be read)
References(doc) ==
    IF Absolute(doc) \in undecodable THEN <<>> ELSE FindAll(files[Absolute(doc)], 1)

\* the path the specification resolves a target to: under the parent
\* directory of the scan root for a target beginning with "/", else under
\* the directory of the document, normalized
SpecTarget(doc, target_spec) ==
    LET clean == SplitFirst(target_spec, "#")
    IN  IF StartsWith(clean, "/")
        THEN Resolve(Div(Parent(Resolve(doc_root)), LStrip(clean, "/")))
        ELSE Resolve(Div(Parent(doc), clean))

\* the existence checks made for match k of a document
ChecksOf(doc, k) ==
    {j \in 1..Len(checks) : checks[j].file = Str(doc) /\ checks[j].at = k}

\* the matches of a document that are references: those not filtered
RefsToCheck(doc) ==
    LET refs == References(doc)
    IN  {k \in 1..Len(refs) : ~Filtered(refs[k].link_path)}

\* the (document, match) pairs that are references to count
Counted == UNION {{<<i, k>> : k \in RefsToCheck(md_files[i])} : i \in 1..Len(md_files)}

\* C1: when the scan returns, every extracted reference that is not
\* filtered was counted once in total_links and was checked for existence
\* exactly once, against the path the specification resolves it to.
C1_EveryReferenceCountedAndChecked ==
    pc = "statistics" =>
        /\ total_links = Cardinality(Counted)
        /\ \A c \in Counted :
              /\ Cardinality(ChecksOf(md_files[c[1]], c[2])) = 1
              /\ \A j \in ChecksOf(md_files[c[1]], c[2]) :
                    Resolve(PathOf(checks[j].path)) =
                    SpecTarget(md_files[c[1]], References(md_files[c[1]])[c[2]].link_path)

\* C2: a step that handles a match whose target is filtered leaves
\* total_links and the broken records as they are, and no broken record
\* ever holds a filtered target.
C2_FilteredNeverCountedNorBroken ==
    [][ /\ (pc = "for link" /\ li <= Len(links) /\ Filtered(links[li].link_path))
            => (total_links' = total_links /\ broken_links' = broken_links
                /\ checks' = checks)
        /\ \A i \in 1..Len(broken_links') : ~Filtered(broken_links'[i].link_path) ]_vars

\* C2's case: a document whose matches are all filtered has been gone
\* through, and nothing was counted.
C2_Witness ==
    /\ pc = "for link" /\ li > Len(links) /\ Len(links) >= 6
    /\ \A k \in 1..Len(links) : Filtered(links[k].link_path)
    /\ total_links = 0 /\ broken_links = <<>>

\* C3: total_links is never smaller than the number of broken records, and
\* the valid count the report prints is never negative.
C3_TotalCoversBroken ==
    /\ total_links >= Len(broken_links)
    /\ \A i \in 1..Len(stdout) : stdout[i].kind = "Valid links:" => stdout[i].n >= 0

\* C3's case: the report of a scan in which every counted link is broken.
C3_Witness ==
    /\ pc = "exit" /\ raised = ""
    /\ Len(broken_links) >= 3 /\ total_links = Len(broken_links)
    /\ \E i \in 1..Len(stdout) : stdout[i].kind = "Valid links:" /\ stdout[i].n = 0

\* C4: a run that found no reference ends without an exception and has
\* printed a success rate.
C4_ZeroReferencesReported ==
    (pc = "exit" /\ total_links = 0) =>
        /\ raised = ""
        /\ \E i \in 1..Len(stdout) : stdout[i].kind = "Success rate:"

\* C5: when the root is no directory, nothing of the report is printed and
\* the run ends in RootNotFound.
C5_MissingRootNoReport ==
    ~IsDir(doc_root) =>
        /\ stdout = <<>>
        /\ pc = "exit" => raised = "RootNotFound"

\* the documents whose processing failed, by the messages printed
Failed == {stdout[i].s : i \in {j \in 1..Len(stdout) : stdout[j].kind = "Error processing"}}

\* the documents of md_files that did not fail, in order
Others == SelectSeq(md_files, LAMBDA doc : Str(doc) \notin Failed)

\* what a scan of one document that does not fail checks and finds broken
CheckedIn(doc) ==
    LET refs == References(doc)
    IN  {[file |-> Str(doc), at |-> k,
          path |-> Str(TargetPath(doc_root, doc, CleanPath(refs[k].link_path)))] :
            k \in RefsToCheck(doc)}
BrokenIn(doc) ==
    LET refs == References(doc)
        bad  == SelectSeq([k \in 1..Len(refs) |-> k], LAMBDA k :
                   /\ k \in RefsToCheck(doc)
                   /\ Exists(TargetPath(doc_root, doc, CleanPath(refs[k].link_path))) # "True")
    IN  [n \in 1..Len(bad) |-> BrokenRecord(doc_root, doc, refs[bad[n]])]

\* C6: no exception of a document leaves the loop: the only exception that
\* ends a run is the report's, and the scan returns with the loop gone
\* through all of md_files and every document counted in total_files, the
\* failing ones too; the checks made and the broken records found in the
\* documents that did not fail are, in the result returned, those of a scan
\* without the failing ones.
C6_FailureStaysInItsDocument ==
    /\ raised # "" => (raised = "ZeroDivisionError" /\ Returned)
    /\ Returned =>
        /\ idx = Len(md_files) + 1
        /\ total_files = Len(md_files)
    /\ pc = "statistics" =>
        /\ SelectSeq(broken_links, LAMBDA r :
              r.file \notin {Str(RelativeTo(PathOf(f), doc_root)) : f \in Failed})
           = Flatten([i \in 1..Len(Others) |-> BrokenIn(Others[i])])
        /\ {checks[j] : j \in {x \in 1..Len(checks) : checks[x].file \notin Failed}}
           = UNION {CheckedIn(Others[i]) : i \in 1..Len(Others)}

\* C6's case: a document failed, and a document after it was processed and
\* a broken link was found in it.
C6_Witness ==
    /\ Returned
    /\ \E i, j \in 1..Len(md_files) :
          /\ i < j
          /\ Str(md_files[i]) \in Failed /\ Str(md_files[j]) \notin Failed
          /\ \E r \in 1..Len(broken_links) :
                broken_links[r].file = Str(RelativeTo(md_files[j], doc_root))

\* C7: no message of a failed document is on standard output, where the
\* report is.
C7_NoFailureMessageOnStdout ==
    \A i \in 1..Len(stdout) : stdout[i].kind # "Error processing"

\* C8: the second run on the unchanged tree has printed what the first did.
C8_SecondRunPrintsTheSame ==
    (run = 2 /\ pc = "exit") => stdout = first_report

\* the lines of the top-files list, in the order printed
TopPrinted == SelectSeq(stdout, LAMBDA l : l.kind = "top file")

\* the number of broken records of a file, and the position of its first
BrokenCount(file) == Cardinality({i \in 1..Len(broken_links) : broken_links[i].file = file})
FirstBroken(file) ==
    CHOOSE i \in 1..Len(broken_links) :
        /\ broken_links[i].file = file
        /\ \A j \in 1..(i - 1) : broken_links[j].file # file

\* whether file f ranks before file g: more broken records, or as many and
\* met first
RanksBefore(f, g) ==
    \/ BrokenCount(f) > BrokenCount(g)
    \/ BrokenCount(f) = BrokenCount(g) /\ FirstBroken(f) < FirstBroken(g)

\* C9: the top-files list of a printed breakdown holds at most 10 files,
\* as many as there are up to 10, each with its number of broken records,
\* ordered by that number descending and, for equal numbers, by the order
\* in which the first broken record of each was met; no file left out
\* ranks before a file listed.
C9_TopFilesRanking ==
    (pc = "exit" /\ raised = "" /\ broken_links # <<>>) =>
        LET withBroken == {broken_links[i].file : i \in 1..Len(broken_links)}
            listed     == {TopPrinted[r].s : r \in 1..Len(TopPrinted)}
        IN  /\ Len(TopPrinted) <= 10
            /\ Len(TopPrinted) = IF Cardinality(withBroken) < 10
                                 THEN Cardinality(withBroken) ELSE 10
            /\ listed \subseteq withBroken
            /\ \A r \in 1..Len(TopPrinted) : TopPrinted[r].n = BrokenCount(TopPrinted[r].s)
            /\ \A r \in 1..(Len(TopPrinted) - 1) :
                  RanksBefore(TopPrinted[r].s, TopPrinted[r + 1].s)
            /\ \A g \in withBroken \ listed : \A r \in 1..Len(TopPrinted) :
                  RanksBefore(TopPrinted[r].s, g)

\* C9's case: more than 10 files hold broken links, 10 are listed, two
\* neighbours of the list hold equally many, and so do a listed file and a
\* file left out.
C9_Witness ==
    /\ pc = "exit" /\ raised = ""
    /\ Cardinality({broken_links[i].file : i \in 1..Len(broken_links)}) > 10
    /\ Len(TopPrinted) = 10
    /\ \E r \in 1..9 : TopPrinted[r].n = TopPrinted[r + 1].n
    /\ \E i \in 1..Len(broken_links) :
          /\ \A r \in 1..10 : TopPrinted[r].s # broken_links[i].file
          /\ BrokenCount(broken_links[i].file) = TopPrinted[10].n

\* the markdown files under the root, and the directories of each on the
\* way down from the root
UnderRoot == {f \in FilePaths : IsUnder(f, Resolve(doc_root)) /\ EndsWith(Name(f), ".md")}
DirSegments(f) ==
    LET rel == RelativeTo(f, Resolve(doc_root)).parts
    IN  {rel[i] : i \in 1..(Len(rel) - 1)}

\* C10: the documents examined are the markdown files under the root none
\* of whose directories below the root is named node_modules.
C10_DiscoveryExcludesBySegment ==
    pc # "start" =>
        {Absolute(md_files[i]) : i \in 1..Len(md_files)}
        = {f \in UnderRoot : "node_modules" \notin DirSegments(f)}
====
